---------------------------- MODULE Spec2Model ----------------------------
(***************************************************************************)
(* Air-quality monitor: the sensor fusion engine (SensorManager), the      *)
(* background acquisition loop and the API handlers that read the latest   *)
(* reading, modelled from src/app.py (the running application; src/sensor.py*)
(* is an older variant of the same class with identical AQI tables).       *)
(*                                                                         *)
(* Numbers.  Published concentrations and temperatures carry one decimal,  *)
(* so they are integers counting tenths; humidity is published as a whole  *)
(* percentage.  Inside the engine the code computes in binary64; the model *)
(* computes the same expressions exactly, in integer multiples of 1/Unit,  *)
(* and every division by a constant is checked to be exact (ExactDiv), so   *)
(* no value is truncated.  Where the binary64 result of a rounding depends *)
(* on which side of a decimal tie the float lands, the model says so: the  *)
(* AQI tables list the inputs where binary64 lands above an exact tie, and *)
(* the engine's round(avg, 1) takes either neighbour at a tie.             *)
(***************************************************************************)
EXTENDS Integers, Sequences, FiniteSets, TLC

(***************************************************************************)
(* Bounds of the model.                                                    *)
(***************************************************************************)
\* Concentrations swept by the AQI specification, in tenths of ug/m3.
MaxPm25 == 5100
MaxPm10 == 4300

None == -1

Max(a, b) == IF a >= b THEN a ELSE b
Min(a, b) == IF a <= b THEN a ELSE b

(***************************************************************************)
(* Python's round(x): nearest integer, ties to the even neighbour.  The    *)
(* argument is the exact rational num/den, num >= 0, den > 0.              *)
(***************************************************************************)
PyRound(num, den) ==
    LET q == num \div den
        r == num % den
    IN  IF 2 * r < den THEN q
        ELSE IF 2 * r > den THEN q + 1
        ELSE IF q % 2 = 0 THEN q ELSE q + 1

(***************************************************************************)
(* One bracket of a breakpoint table:                                      *)
(*   round(aLo + ((aHi-aLo)/(cHi-cLo)) * (c-cLo))                          *)
(* with the concentrations c, cLo, cHi in tenths.                          *)
(***************************************************************************)
Interp_Floor(c, cLo, cHi, aLo, aHi) ==
    (aLo * (cHi - cLo) + (aHi - aLo) * (c - cLo)) \div (cHi - cLo)

Interp(c, cLo, cHi, aLo, aHi) ==
    PyRound(aLo * (cHi - cLo) + (aHi - aLo) * (c - cLo), cHi - cLo)

\* Inputs (tenths) at which the exact value of the bracket expression is a
\* tie n + 1/2 with n even, and the binary64 evaluation of
\* aLo + slope * (c - cLo) lands just above it, so round() returns n + 1.
FloatAboveTie25 == {54, 372, 412, 452}

Pm25Table_Gap ==
    << <<0, 120, 0, 50>>, <<120, 354, 51, 100>>, <<354, 554, 101, 150>>,
       <<554, 1504, 151, 200>>, <<1504, 2504, 201, 300>>,
       <<2504, 5004, 301, 500>> >>

\* The constants of the six return expressions of _calc_aqi_pm25, in order:
\* <<cLo, cHi, aLo, aHi>>, concentrations in tenths.
Pm25Table ==
    << <<0, 120, 0, 50>>, <<120, 354, 50, 100>>, <<354, 554, 100, 150>>,
       <<554, 1504, 150, 200>>, <<1504, 2504, 200, 300>>,
       <<2504, 5004, 300, 500>> >>

\* The k-th return expression of _calc_aqi_pm25 evaluated at c (for the
\* sixth, before min(..., 500)).
Bracket25(k, c) ==
    LET b == Pm25Table[k]
    IN  Interp(c, b[1], b[2], b[3], b[4])

_calc_aqi_pm25_NoCap(pm25) ==
    IF pm25 <= 120 THEN Bracket25(1, pm25)
    ELSE IF pm25 <= 354 THEN Bracket25(2, pm25)
    ELSE IF pm25 <= 554 THEN Bracket25(3, pm25)
    ELSE IF pm25 <= 1504 THEN Bracket25(4, pm25)
    ELSE IF pm25 <= 2504 THEN Bracket25(5, pm25)
    ELSE Bracket25(6, pm25)

\* SensorManager._calc_aqi_pm25, pm25 in tenths.
_calc_aqi_pm25(pm25) ==
    LET exact ==
          IF pm25 <= 120 THEN Bracket25(1, pm25)
          ELSE IF pm25 <= 354 THEN Bracket25(2, pm25)
          ELSE IF pm25 <= 554 THEN Bracket25(3, pm25)
          ELSE IF pm25 <= 1504 THEN Bracket25(4, pm25)
          ELSE IF pm25 <= 2504 THEN Bracket25(5, pm25)
          ELSE Min(Bracket25(6, pm25), 500)
    IN  IF pm25 \in FloatAboveTie25 THEN exact + 1 ELSE exact

_calc_aqi_pm10_Extended(pm10) ==
    IF pm10 <= 540 THEN Interp(pm10, 0, 540, 0, 50)
    ELSE IF pm10 <= 1540 THEN Interp(pm10, 540, 1540, 50, 100)
    ELSE IF pm10 <= 2540 THEN Interp(pm10, 1540, 2540, 100, 150)
    ELSE IF pm10 <= 3540 THEN Interp(pm10, 2540, 3540, 150, 200)
    ELSE Min(Interp(pm10, 3540, 4240, 200, 300), 500)

\* SensorManager._calc_aqi_pm10 with a final value below the last bracket's end.
_calc_aqi_pm10_StepDown(pm10) ==
    IF pm10 <= 540 THEN Interp(pm10, 0, 540, 0, 50)
    ELSE IF pm10 <= 1540 THEN Interp(pm10, 540, 1540, 50, 100)
    ELSE IF pm10 <= 2540 THEN Interp(pm10, 1540, 2540, 100, 150)
    ELSE IF pm10 <= 3540 THEN Interp(pm10, 2540, 3540, 150, 200)
    ELSE IF pm10 <= 4240 THEN Interp(pm10, 3540, 4240, 200, 300)
    ELSE 299

\* SensorManager._calc_aqi_pm10, pm10 in tenths.
_calc_aqi_pm10(pm10) ==
    IF pm10 <= 540 THEN Interp(pm10, 0, 540, 0, 50)
    ELSE IF pm10 <= 1540 THEN Interp(pm10, 540, 1540, 50, 100)
    ELSE IF pm10 <= 2540 THEN Interp(pm10, 1540, 2540, 100, 150)
    ELSE IF pm10 <= 3540 THEN Interp(pm10, 2540, 3540, 150, 200)
    ELSE IF pm10 <= 4240 THEN Interp(pm10, 3540, 4240, 200, 300)
    ELSE 301

calculate_aqi_OnlyPm25(pm25, pm10) == _calc_aqi_pm25(pm25)

\* SensorManager.calculate_aqi
calculate_aqi(pm25, pm10) ==
    LET aqi_pm25 == _calc_aqi_pm25(pm25)
        aqi_pm10 == _calc_aqi_pm10(pm10)
    IN  Max(aqi_pm25, aqi_pm10)

get_aqi_status_Below(aqi) ==
    IF aqi < 50 THEN "Good"
    ELSE IF aqi < 100 THEN "Moderate"
    ELSE IF aqi < 150 THEN "Unhealthy for Sensitive Groups"
    ELSE IF aqi < 200 THEN "Unhealthy"
    ELSE IF aqi < 300 THEN "Very Unhealthy"
    ELSE "Hazardous"

\* SensorManager.get_aqi_status (src/sensor.py)
get_aqi_status(aqi) ==
    IF aqi <= 50 THEN "Good"
    ELSE IF aqi <= 100 THEN "Moderate"
    ELSE IF aqi <= 150 THEN "Unhealthy for Sensitive Groups"
    ELSE IF aqi <= 200 THEN "Unhealthy"
    ELSE IF aqi <= 300 THEN "Very Unhealthy"
    ELSE "Hazardous"

(***************************************************************************)
(* Bounds of the engine model.                                             *)
(***************************************************************************)
\* Cycles explored with a simulated engine (hardware = FALSE).
MaxCycles == 7
\* Cycles explored with a hardware engine (hardware = TRUE).
MaxHwCycles == 4

(***************************************************************************)
(* Fixed point.  One unit of concentration, temperature or humidity is     *)
(* Unit model integers.  The momentum filter divides by 4 once per cycle   *)
(* and the hardware calibration multiplies by 0.8, 0.95, 1.3 and 2.5, so   *)
(* multiples of 1/(125 * 4^MaxCycles) hold every value exactly.            *)
(***************************************************************************)
Unit == 125 * 4 ^ MaxCycles
V(n) == n * Unit

\* min(n, x) and max(n, x) for a whole number n of units, comparing in whole
\* units so that n * Unit is formed only when it is the result.
AtMost(n, x) ==
    IF x \div Unit > n \/ (x \div Unit = n /\ x % Unit > 0) THEN V(n) ELSE x
AtLeast(n, x) ==
    IF x \div Unit < n THEN V(n) ELSE x

\* x / d for a d that divides x; it has no value otherwise, so a model run
\* that would have to truncate stops instead.
ExactDiv(x, d) == CHOOSE q \in {x \div d} : q * d = x

Channels == <<"pm25", "pm10", "temp", "humidity">>
ChannelSet == {"pm25", "pm10", "temp", "humidity"}

\* SensorManager.__init__: the tuning parameters.
buffer_size == 5
pm25_baseline == 8
pm10_baseline == 12
pm25_indoor_cap == 35
pm25_outdoor_cap == 120
pm10_indoor_cap == 45
pm10_outdoor_cap == 150
\* pm25_multiplier = 0.8, pm10_multiplier = 1.0
pm25_multiplier(x) == ExactDiv(x, 5) * 4
pm10_multiplier(x) == x
\* pm10_min_ratio = 1.3, pm10_max_ratio = 2.5
pm10_min_ratio(x) == x + ExactDiv(x, 10) * 3
pm10_max_ratio(x) == 2 * x + ExactDiv(x, 2)

InitCurrentValues_Empty == [k \in {} |-> 0]

\* SensorManager.__init__: self.current_values, already holding all four keys.
InitCurrentValues ==
    [k \in ChannelSet |->
        CASE k = "pm25" -> V(15) [] k = "pm10" -> V(30)
          [] k = "temp" -> V(24) [] k = "humidity" -> V(60)]

\* SensorManager.__init__: self.history
InitHistory == [k \in ChannelSet |-> << >>]

\* SensorManager.__init__: the engine's mutable state.
InitEngine ==
    [history |-> InitHistory,
     current_values |-> InitCurrentValues,
     environment_state |-> "indoor"]

(***************************************************************************)
(* read_dust_sensor: low is the number of 10 ms polls that saw the pin     *)
(* LOW during the 2 s window; low_time = low * 0.01, duty = low_time / 2 * *)
(* 100 = low / 2 percent, capped at 90.                                    *)
(***************************************************************************)
read_dust_sensor(low) ==
    LET duty_cycle == low * ExactDiv(Unit, 2)
    IN  Max(0, AtMost(90, duty_cycle))

\* SensorManager._convert_duty_to_pm
_convert_duty_to_pm(duty_cycle, sensor_type) ==
    IF duty_cycle <= V(3) THEN 0
    ELSE LET adjusted_duty == duty_cycle - V(3)
             pm_value == IF sensor_type = "pm25"
                         THEN pm25_multiplier(adjusted_duty)
                         ELSE pm10_multiplier(adjusted_duty)
         IN  IF sensor_type = "pm25" THEN AtMost(150, pm_value)
             ELSE AtMost(200, pm_value)

\* SensorManager._detect_environment: the composite indoor score.
IndoorScore(temp, humidity, pm25, pm10) ==
    LET t == IF V(20) <= temp /\ temp <= V(27) THEN 3
             ELSE IF temp > V(30) THEN -2 ELSE 0
        h == IF humidity < V(65) THEN 2
             ELSE IF humidity > V(75) THEN -1 ELSE 0
        p == IF /\ pm25 < ExactDiv(V(pm25_indoor_cap), 10) * 7
                /\ pm10 < ExactDiv(V(pm10_indoor_cap), 10) * 7
             THEN 3
             ELSE IF \/ pm25 > ExactDiv(V(pm25_outdoor_cap), 10) * 4
                     \/ pm10 > ExactDiv(V(pm10_outdoor_cap), 10) * 4
             THEN -2 ELSE 0
    IN  t + h + p

Hysteresis_OneThreshold(environment_state, indoor_score) ==
    IF indoor_score >= 3 THEN "indoor" ELSE "outdoor"

\* SensorManager._detect_environment: the update with hysteresis.
Hysteresis(environment_state, indoor_score) ==
    IF indoor_score >= 5 /\ environment_state # "indoor" THEN "indoor"
    ELSE IF indoor_score <= 1 /\ environment_state # "outdoor" THEN "outdoor"
    ELSE environment_state

_apply_momentum_Swapped(current_values, key, new_value) ==
    [current_values EXCEPT
        ![key] = new_value - ExactDiv(new_value - current_values[key], 4)]

\* SensorManager._apply_momentum (momentum = 0.75): the dictionary after the
\* call; the call returns the entry of key.
\*   0.75 * previous + 0.25 * new_value = previous - (previous - new_value) / 4
_apply_momentum(current_values, key, new_value) ==
    IF key \notin DOMAIN current_values
    THEN [k \in DOMAIN current_values \cup {key} |->
             IF k = key THEN new_value ELSE current_values[k]]
    ELSE [current_values EXCEPT
             ![key] = current_values[key]
                        - ExactDiv(current_values[key] - new_value, 4)]

\* One _apply_momentum call as the cycle makes it, with what it saw and left.
MomentumCall(current_values, key, new_value) ==
    LET after == _apply_momentum(current_values, key, new_value)
    IN  [key |-> key, new_value |-> new_value, before |-> current_values,
         after |-> after, ret |-> after[key]]

\* The four calls of a cycle, in the order pm25, pm10, temp, humidity.
MomentumCalls(current_values, new) ==
    LET c1 == MomentumCall(current_values, "pm25", new.pm25)
        c2 == MomentumCall(c1.after, "pm10", new.pm10)
        c3 == MomentumCall(c2.after, "temp", new.temp)
        c4 == MomentumCall(c3.after, "humidity", new.humidity)
    IN  <<c1, c2, c3, c4>>

Push_EvictNewest(list, value) ==
    IF Len(list) >= buffer_size THEN list ELSE Append(list, value)

\* self.history[key].append(value), then pop(0) if the list outgrew buffer_size.
Push(list, value) ==
    LET appended == Append(list, value)
    IN  IF Len(appended) > buffer_size THEN Tail(appended) ELSE appended

\* The add-to-history block of a cycle.
PushAll(history, sample) ==
    [k \in ChannelSet |-> Push(history[k], sample[k])]

(***************************************************************************)
(* round(sum(list) / len(list), digits) for digits 1 and 0, as the set of  *)
(* results binary64 can give.  The result counts steps of Unit/10 (one     *)
(* decimal) or Unit (none).  The quotient is accumulated element by        *)
(* element so that no intermediate exceeds the checker's machine integers. *)
(* Away from a tie the nearest step is the result.  At an exact tie:       *)
(*  - if every sample is a binary fraction (a multiple of 125 model        *)
(*    integers) the sum is exact in binary64, and if the tie itself is a   *)
(*    binary fraction (always for digits 0; for digits 1 when it ends in   *)
(*    .25 or .75) the quotient is exact too and round() goes to the even   *)
(*    neighbour;                                                           *)
(*  - otherwise the binary64 quotient lies on one side of the tie or the   *)
(*    other, and both neighbours are possible results.                     *)
(***************************************************************************)
RECURSIVE QuoSum(_, _), RemSum(_, _)
QuoSum(list, d) ==
    IF list = << >> THEN 0 ELSE (Head(list) \div d) + QuoSum(Tail(list), d)
RemSum(list, d) ==
    IF list = << >> THEN 0 ELSE (Head(list) % d) + RemSum(Tail(list), d)

RoundedAverage(list, digits) ==
    LET step == IF digits = 1 THEN ExactDiv(Unit, 10) ELSE Unit
        d == Len(list) * step
        q == QuoSum(list, d) + (RemSum(list, d) \div d)
        r == RemSum(list, d) % d
        binary == /\ \A i \in 1..Len(list) : list[i] % 125 = 0
                  /\ digits = 0 \/ q % 5 = 2
    IN  IF 2 * r < d THEN {q}
        ELSE IF 2 * r > d THEN {q + 1}
        ELSE IF binary THEN {IF q % 2 = 0 THEN q ELSE q + 1}
        ELSE {q, q + 1}

\* The final_values a cycle can return: pm25, pm10, temperature in tenths,
\* humidity in whole percent.
FinalValues(history) ==
    [pm25 : RoundedAverage(history["pm25"], 1),
     pm10 : RoundedAverage(history["pm10"], 1),
     temperature : RoundedAverage(history["temp"], 1),
     humidity : RoundedAverage(history["humidity"], 0)]

(***************************************************************************)
(* Inputs of a cycle.  What the code draws from the clock, from random and *)
(* from the sensors is drawn here from small menus.                        *)
(***************************************************************************)
\* _read_simulation: cycle = (time.time() % 60) // 30 and the four
\* random.uniform jitters; the interval ends stand for the limits of the draw.
SimInputs ==
    { [cycle |-> 0, pm25 |-> 5,  pm10 |-> -5, temp |-> 1,  humidity |-> 5],
      [cycle |-> 0, pm25 |-> 2,  pm10 |-> 0,  temp |-> 0,  humidity |-> 0],
      [cycle |-> 1, pm25 |-> -3, pm10 |-> 8,  temp |-> -1, humidity |-> -5],
      [cycle |-> 1, pm25 |-> 5,  pm10 |-> -5, temp |-> 1,  humidity |-> 5] }

Raise == -2
NoSim == [cycle |-> 0, pm25 |-> 0, pm10 |-> 0, temp |-> 0, humidity |-> 0]

\* One attempt on the DHT22: what reading .temperature and .humidity gave
\* (degrees, percent), None, or Raise when the read raised.
Dht(t, h) == [temperature |-> t, humidity |-> h]

\* A hardware cycle that raises nothing: the two DHT22 attempts, the jitters
\* of the two defaults, and the LOW polls counted on pins 23 and 24.
Hw(a1, a2, dt, dh, low25, low10) ==
    [gpio_error |-> FALSE, attempts |-> <<a1, a2>>,
     temp_jitter |-> dt, humidity_jitter |-> dh,
     low25 |-> low25, low10 |-> low10, sim |-> NoSim]

HwOkInputs ==
    { Hw(Dht(24, 60), Dht(24, 60), 0, 0, 0, 0),
      Hw(Dht(24, 70), Dht(24, 70), 0, 0, 0, 0),
      Hw(Dht(28, 60), Dht(28, 60), 0, 0, 86, 0),
      Hw(Dht(32, 80), Dht(32, 80), 0, 0, 200, 200),
      Hw(Dht(32, 80), Dht(32, 80), 0, 0, 0, 86),
      Hw(Dht(Raise, None), Dht(None, None), 2, -5, 36, 36),
      Hw(Dht(24, Raise), Dht(24, 70), 0, 0, 200, 200),
      Hw(Dht(5, 60), Dht(5, 60), 0, 0, 0, 0) }

\* A hardware cycle in which GPIO.input raises inside read_dust_sensor; sim
\* holds the draws of the simulation that replaces it.
HwErrorInputs ==
    { [gpio_error |-> TRUE, attempts |-> <<Dht(24, 60), Dht(24, 60)>>,
       temp_jitter |-> 0, humidity_jitter |-> 0,
       low25 |-> 0, low10 |-> 0, sim |-> s] : s \in SimInputs }

(***************************************************************************)
(* _read_simulation.  The result carries the engine state it leaves, the   *)
(* final_values it can return (finals) and a record of what the cycle did. *)
(***************************************************************************)
\* _read_simulation, lines 257-273: the phase's base values plus the draws.
SimulationTargets(in) ==
    LET base == IF in.cycle = 0
                THEN [pm25 |-> 18, pm10 |-> 30, temp |-> 26, humidity |-> 60]
                ELSE [pm25 |-> 35, pm10 |-> 65, temp |-> 30, humidity |-> 75]
    IN  [k \in ChannelSet |-> V(base[k] + in[k])]

_read_simulation(eng, in) ==
    LET new == SimulationTargets(in)
        calls == MomentumCalls(eng.current_values, new)
        sample == [pm25 |-> calls[1].ret, pm10 |-> calls[2].ret,
                   temp |-> calls[3].ret, humidity |-> calls[4].ret]
        history == PushAll(eng.history, sample)
    IN  [eng |-> [eng EXCEPT !.history = history,
                             !.current_values = calls[4].after],
         finals |-> FinalValues(history),
         raised |-> FALSE, logged |-> 0, mode |-> "simulation",
         calls |-> calls, sample |-> sample, score |-> << >>,
         raw |-> << >>]

\* _read_hardware, lines 162-171: the retry loop over the DHT22 attempts.
\* The retry loop without its break.
RECURSIVE DhtLoop_NoBreak(_, _, _)
DhtLoop_NoBreak(temp, humidity, attempts) ==
    IF attempts = << >> THEN [temp |-> temp, humidity |-> humidity, left |-> 0]
    ELSE LET a == Head(attempts)
             t == IF a.temperature = Raise THEN temp ELSE a.temperature
             h == IF a.temperature = Raise \/ a.humidity = Raise
                  THEN humidity ELSE a.humidity
         IN  DhtLoop_NoBreak(t, h, Tail(attempts))

\* left counts the attempts of the range that were not made.
RECURSIVE DhtLoop(_, _, _)
DhtLoop(temp, humidity, attempts) ==
    IF attempts = << >> THEN [temp |-> temp, humidity |-> humidity, left |-> 0]
    ELSE LET a == Head(attempts)
             t == IF a.temperature = Raise THEN temp ELSE a.temperature
             h == IF a.temperature = Raise \/ a.humidity = Raise
                  THEN humidity ELSE a.humidity
             completed == a.temperature # Raise /\ a.humidity # Raise
         IN  IF completed /\ t # None /\ h # None
             THEN [temp |-> t, humidity |-> h, left |-> Len(Tail(attempts))]
             ELSE DhtLoop(t, h, Tail(attempts))

(***************************************************************************)
(* The two acquisition calls of a hardware cycle, as app.py and sensor.py  *)
(* make them.                                                              *)
(***************************************************************************)
\* The polls of one sampling window: the loop runs while less than duration
\* seconds have passed and sleeps 0.01 s per poll (duration 2 in app.py,
\* 3 in sensor.py).
Polls(file) == IF file = "app.py" THEN 200 ELSE 300

\* sensor.py, SensorManager.read_dust_sensor: ratio = low_time / 3 * 100 =
\* low / 3 percent, returned as max(0, ratio); in thirds of 1/Unit percent.
sensor_py_read_dust_sensor(low) ==
    LET ratio == low * Unit
    IN  Max(0, ratio)

\* read_dust_sensor of either module, in thirds of 1/Unit percent.
ReadDust(file, low) ==
    IF file = "app.py" THEN 3 * read_dust_sensor(low)
    ELSE sensor_py_read_dust_sensor(low)

\* for attempt in range(2) in app.py, range(3) in sensor.py.
DhtAttempts(file) == IF file = "app.py" THEN 2 ELSE 3

\* The value that replaces a channel the DHT22 did not give, and the half
\* width of the random.uniform added to it, in tenths: 26 +- 2 and 65 +- 5
\* in app.py, base_values 28 +- 0.5 and 65 +- 2 in sensor.py.
DhtDefault(file) ==
    IF file = "app.py"
    THEN [temp |-> 260, humidity |-> 650, temp_jitter |-> 20,
          humidity_jitter |-> 50]
    ELSE [temp |-> 280, humidity |-> 650, temp_jitter |-> 5,
          humidity_jitter |-> 20]

\* The retry loop and the defaults after it: the temperature and humidity
\* the cycle goes on with (tenths), the channels the loop left at None, the
\* attempts made, and whether an exception left the block.
ReadDht(file, in) ==
    LET dht == DhtLoop(None, None, in.attempts)
    IN  [temp |-> IF dht.temp = None
                  THEN DhtDefault(file).temp + in.temp_jitter
                  ELSE 10 * dht.temp,
         humidity |-> IF dht.humidity = None
                      THEN DhtDefault(file).humidity + in.humidity_jitter
                      ELSE 10 * dht.humidity,
         absent |-> {k \in {"temp", "humidity"} : dht[k] = None},
         tries |-> Len(in.attempts) - dht.left,
         raised |-> FALSE]

EnforceRatio_FloorOnly(pm25_raw, pm10_raw) ==
    IF pm10_raw < pm10_min_ratio(pm25_raw) THEN pm10_min_ratio(pm25_raw)
    ELSE pm10_raw

\* _read_hardware, lines 196-200: the PM10/PM2.5 ratio control; the new pm10.
EnforceRatio(pm25_raw, pm10_raw) ==
    IF pm10_raw < pm10_min_ratio(pm25_raw) THEN pm10_min_ratio(pm25_raw)
    ELSE IF pm10_raw > pm10_max_ratio(pm25_raw) THEN pm10_max_ratio(pm25_raw)
    ELSE pm10_raw

EnvironmentCaps_OutdoorOnly(environment, pm25_raw, pm10_raw) ==
    [pm25 |-> AtMost(pm25_outdoor_cap, pm25_raw),
     pm10 |-> AtMost(pm10_outdoor_cap, pm10_raw)]

\* _read_hardware, lines 205-211: the environment-based caps.
EnvironmentCaps(environment, pm25_raw, pm10_raw) ==
    IF environment = "indoor"
    THEN [pm25 |-> AtMost(pm25_indoor_cap, pm25_raw),
          pm10 |-> AtMost(pm10_indoor_cap, pm10_raw)]
    ELSE [pm25 |-> AtMost(pm25_outdoor_cap, pm25_raw),
          pm10 |-> AtMost(pm10_outdoor_cap, pm10_raw)]

\* _read_hardware, lines 219-223: the absolute safety bounds.
AbsoluteBounds(pm25, pm10, temp, humidity) ==
    [pm25 |-> AtLeast(8, AtMost(150, pm25)),
     pm10 |-> AtLeast(15, AtMost(300, pm10)),
     temp |-> AtLeast(18, AtMost(35, temp)),
     humidity |-> AtLeast(30, AtMost(90, humidity))]

\* _read_hardware, the body of the try block when nothing raises.
HardwareBody(eng, in) ==
    LET dht == DhtLoop(None, None, in.attempts)
        temp == IF dht.temp = None THEN V(26 + in.temp_jitter)
                ELSE V(dht.temp)
        humidity == IF dht.humidity = None THEN V(65 + in.humidity_jitter)
                    ELSE V(dht.humidity)
        pm25_duty == read_dust_sensor(in.low25)
        pm10_duty == read_dust_sensor(in.low10)
        pm25_base == _convert_duty_to_pm(pm25_duty, "pm25") + V(pm25_baseline)
        pm10_base == _convert_duty_to_pm(pm10_duty, "pm10") + V(pm10_baseline)
        pm25_comp == IF humidity > V(70)
                     THEN pm25_base - ExactDiv(pm25_base, 20) ELSE pm25_base
        pm10_comp == IF humidity > V(70)
                     THEN pm10_base - ExactDiv(pm10_base, 20) ELSE pm10_base
        pm10_ratio == EnforceRatio(pm25_comp, pm10_comp)
        indoor_score == IndoorScore(temp, humidity, pm25_comp, pm10_ratio)
        environment == Hysteresis(eng.environment_state, indoor_score)
        capped == EnvironmentCaps(environment, pm25_comp, pm10_ratio)
        new == [pm25 |-> capped.pm25, pm10 |-> capped.pm10,
                temp |-> temp, humidity |-> humidity]
        calls == MomentumCalls(eng.current_values, new)
        sample == AbsoluteBounds(calls[1].ret, calls[2].ret,
                                 calls[3].ret, calls[4].ret)
        history == PushAll(eng.history, sample)
    IN  [eng |-> [history |-> history,
                  current_values |-> calls[4].after,
                  environment_state |-> environment],
         finals |-> FinalValues(history),
         raised |-> FALSE, logged |-> 0, mode |-> "hardware",
         calls |-> calls, sample |-> sample, score |-> <<indoor_score>>,
         raw |-> <<[pm25 |-> pm25_comp, pm10 |-> pm10_ratio,
                    pm10_before |-> pm10_comp], capped>>]

\* The except branch entered after the try block had already smoothed and
\* pushed its samples.
HardwareExcept_AfterBody(eng, in) ==
    [_read_simulation(HardwareBody(eng, in).eng, in.sim) EXCEPT
        !.logged = 1, !.mode = "fallback"]

\* The except branch with the classifier put back to its default.
HardwareExcept_ResetState(eng, in) ==
    [_read_simulation(eng, in.sim) EXCEPT
        !.logged = 1, !.mode = "fallback", !.eng.environment_state = "indoor"]

HardwareExcept_Reraise(eng, in) ==
    [_read_simulation(eng, in.sim) EXCEPT
        !.eng = eng, !.logged = 1, !.mode = "fallback", !.raised = TRUE]

\* _read_hardware, lines 251-253: the except branch; the error is printed
\* and the simulation's reading is returned.
HardwareExcept(eng, in) ==
    [_read_simulation(eng, in.sim) EXCEPT !.logged = 1, !.mode = "fallback"]

\* SensorManager._read_hardware
_read_hardware(eng, in) ==
    IF in.gpio_error THEN HardwareExcept(eng, in) ELSE HardwareBody(eng, in)

\* SensorManager.read_sensors; in is a hardware input when the engine runs
\* on hardware and a simulation input otherwise.
read_sensors(eng, hw, in) ==
    IF hw THEN _read_hardware(eng, in) ELSE _read_simulation(eng, in)

VARIABLES
    \* the arguments and result of a calculate_aqi call (AQI specification)
    q_axis,     \* which argument the sweep varies: "pm25" or "pm10"
    q_pm25,     \* argument pm25, tenths
    q_pm10,     \* argument pm10, tenths
    q_aqi,      \* the result, None before the first call
    q_status,   \* get_aqi_status of the result, "" before the first call
    \* the SensorManager instance
    hardware,           \* self.hardware
    history,            \* self.history: channel -> list of samples
    current_values,     \* self.current_values: channel -> persisted value
    environment_state,  \* self.environment_state
    \* what the cycles did, recorded for the properties
    cycles,     \* read_sensors calls completed
    data,       \* the final_values the last read_sensors call returned
    last,       \* the last cycle: mode, momentum calls, sample, raw pair
    pushed,     \* channel -> every sample appended to its history so far
    scores,     \* hardware cycles so far: <<indoor_score, state after>>
    errors,     \* "Hardware reading error" lines printed so far
    \* the module globals and the two kinds of thread
    sensor_manager, \* FALSE while the global is None, TRUE once constructed
    SENSOR_DATA,    \* the latest-reading dictionary
    SENSOR_LOCK,    \* who holds the lock: "free", "writer" or "reader"
    pcW,            \* where continuous_sensor_reading is
    loop_errors,    \* "Sensor reading error" lines printed by the loop
    published,      \* the records completed cycles have written
    pcR,            \* where the API handler is
    handler,        \* which handler runs: the route's function name
    snap,           \* the handler's copy of SENSOR_DATA
    requests,       \* API requests started so far
    \* the API: the request being served, the database and the clock
    req,            \* the request's input
    store,          \* the database: readings, collection_data, next row id
    response,       \* the last response returned
    now,            \* the last value read from the clock
    critical,       \* what the holder of SENSOR_LOCK has done while holding it
    \* one acquisition call on the hardware channels (acquisition specification)
    a_file,     \* the module whose SensorManager is called
    a_call,     \* "read_dust_sensor" or "dht22"
    a_in,       \* the call's input: LOW polls counted, or the DHT22 attempts
    a_out       \* <<what the call returned>>, << >> before it has run

aqiVars == <<q_axis, q_pm25, q_pm10, q_aqi, q_status>>
engineVars == <<hardware, history, current_values, environment_state>>
cycleVars == <<cycles, data, last, pushed, scores, errors>>
writerVars == <<sensor_manager, SENSOR_DATA, SENSOR_LOCK, pcW, loop_errors,
                published>>
readerVars == <<pcR, handler, snap, requests>>
apiVars == <<req, store, response, now>>
loopVars == <<writerVars, readerVars, apiVars, critical>>
acqVars == <<a_file, a_call, a_in, a_out>>
vars == <<aqiVars, acqVars, engineVars, cycleVars, loopVars>>

NoData == [pm25 |-> 0, pm10 |-> 0, temperature |-> 0, humidity |-> 0]
NoCycle == [mode |-> "none", calls |-> << >>,
            sample |-> [k \in ChannelSet |-> 0], raw |-> << >>,
            raised |-> FALSE, logged |-> 0]

\* SENSOR_DATA as the module creates it (line 20).
InitSensorData ==
    [pm25 |-> 0, pm10 |-> 0, temp |-> 0, humidity |-> 0, aqi |-> 0]

\* No request is being served.
NoRequest ==
    [db_ok |-> TRUE, in_bounds |-> TRUE, points |-> << >>, reading_id |-> 0,
     started |-> 0]

\* No response has been returned.
NoResponse ==
    [handler |-> "none", code |-> 0, body |-> << >>, db_ok |-> TRUE,
     started |-> 0, finished |-> 0]

\* The database after init_db: both tables empty; next_id is the id the
\* next inserted reading gets (AUTOINCREMENT); available is whether
\* sqlite3 can reach the file while the application runs.
EmptyStore(available) ==
    [readings |-> {}, collection_data |-> {}, next_id |-> 1,
     available |-> available]

\* The globals and threads before the background thread has run.
ThreadsIdle ==
    /\ sensor_manager = FALSE
    /\ SENSOR_DATA = InitSensorData
    /\ SENSOR_LOCK = "free"
    /\ pcW = "start"
    /\ loop_errors = 0
    /\ published = {}
    /\ pcR = "idle"
    /\ handler = "none"
    /\ snap = InitSensorData
    /\ requests = 0
    /\ req = NoRequest
    /\ response = NoResponse
    /\ now = 0
    /\ critical = {}

LoopIdle ==
    /\ ThreadsIdle
    /\ store = EmptyStore(TRUE)

\* The engine as constructed by SensorManager(hardware=hw), no cycle run.
EngineConstructed(hw) ==
    /\ hardware = hw
    /\ history = InitEngine.history
    /\ current_values = InitEngine.current_values
    /\ environment_state = InitEngine.environment_state
    /\ cycles = 0
    /\ data = NoData
    /\ last = NoCycle
    /\ pushed = [k \in ChannelSet |-> << >>]
    /\ scores = << >>
    /\ errors = 0

AqiIdle ==
    /\ q_axis = "pm25"
    /\ q_pm25 = 0
    /\ q_pm10 = 0
    /\ q_aqi = None
    /\ q_status = ""

\* No acquisition call is under examination.
AcqIdle ==
    /\ a_file = "app.py"
    /\ a_call = "none"
    /\ a_in = 0
    /\ a_out = << >>

Engine ==
    [history |-> history, current_values |-> current_values,
     environment_state |-> environment_state]

\* One read_sensors call on the engine with the drawn input in.
ReadSensors(in) ==
    \E r \in {read_sensors(Engine, hardware, in)} :
        /\ history' = r.eng.history
        /\ current_values' = r.eng.current_values
        /\ environment_state' = r.eng.environment_state
        /\ data' \in IF r.raised THEN {data} ELSE r.finals
        /\ cycles' = cycles + 1
        /\ last' = [mode |-> r.mode, calls |-> r.calls,
                    sample |-> r.sample, raw |-> r.raw,
                    raised |-> r.raised, logged |-> r.logged]
        /\ pushed' = [k \in ChannelSet |-> Append(pushed[k], r.sample[k])]
        /\ scores' = IF r.score = << >> THEN scores
                     ELSE Append(scores, <<r.score[1], r.eng.environment_state>>)
        /\ errors' = errors + r.logged
        /\ UNCHANGED hardware

(***************************************************************************)
(* The AQI calculator as a pure function: every pair with one argument on  *)
(* a grid of bracket ends and the other swept over all tenths.             *)
(***************************************************************************)
GridPm25 == {0, 100, 120, 354, 554, 1504, 2504, 5004}
GridPm10 == {0, 400, 540, 1540, 2540, 3540, 4240, 4241}

InitAqi ==
    /\ q_axis \in {"pm25", "pm10"}
    /\ q_pm25 \in IF q_axis = "pm25" THEN {0} ELSE GridPm25
    /\ q_pm10 \in IF q_axis = "pm10" THEN {0} ELSE GridPm10
    /\ q_aqi = None
    /\ q_status = ""
    /\ AcqIdle
    /\ EngineConstructed(FALSE)
    /\ LoopIdle

Calculate ==
    /\ q_aqi = None
    /\ q_aqi' = calculate_aqi(q_pm25, q_pm10)
    /\ q_status' = get_aqi_status(q_aqi')
    /\ UNCHANGED <<q_axis, q_pm25, q_pm10, acqVars, engineVars, cycleVars,
                   loopVars>>

CalculateNextPm25 ==
    /\ q_aqi # None
    /\ q_axis = "pm25"
    /\ q_pm25 < MaxPm25
    /\ q_pm25' = q_pm25 + 1
    /\ q_aqi' = calculate_aqi(q_pm25', q_pm10)
    /\ q_status' = get_aqi_status(q_aqi')
    /\ UNCHANGED <<q_axis, q_pm10, acqVars, engineVars, cycleVars, loopVars>>

CalculateNextPm10 ==
    /\ q_aqi # None
    /\ q_axis = "pm10"
    /\ q_pm10 < MaxPm10
    /\ q_pm10' = q_pm10 + 1
    /\ q_aqi' = calculate_aqi(q_pm25, q_pm10')
    /\ q_status' = get_aqi_status(q_aqi')
    /\ UNCHANGED <<q_axis, q_pm25, acqVars, engineVars, cycleVars, loopVars>>

NextAqi == Calculate \/ CalculateNextPm25 \/ CalculateNextPm10

SpecAqi == InitAqi /\ [][NextAqi]_vars

(***************************************************************************)
(* The acquisition calls as pure functions: read_dust_sensor for every     *)
(* count of LOW polls a window can hold, and the DHT22 retry loop for      *)
(* every sequence of attempt outcomes.                                     *)
(***************************************************************************)
Files == {"app.py", "sensor.py"}

\* What one attempt on the DHT22 can give.
DhtOutcomes ==
    { Dht(24, 60), Dht(24, None), Dht(None, 60), Dht(None, None),
      Dht(24, Raise), Dht(Raise, None) }

\* The inputs of the retry loop: one outcome per attempt of the range and
\* the ends of the two random.uniform draws.
DhtInputs(file) ==
    { [attempts |-> s, temp_jitter |-> sign * DhtDefault(file).temp_jitter,
       humidity_jitter |-> sign * DhtDefault(file).humidity_jitter] :
         s \in [1..DhtAttempts(file) -> DhtOutcomes], sign \in {-1, 1} }

InitAcquire ==
    /\ a_file \in Files
    /\ a_call \in {"read_dust_sensor", "dht22"}
    /\ a_in \in IF a_call = "dht22" THEN DhtInputs(a_file) ELSE {0}
    /\ a_out = << >>
    /\ AqiIdle
    /\ EngineConstructed(TRUE)
    /\ LoopIdle

\* The call is made on the input.
Acquire ==
    /\ a_out = << >>
    /\ a_out' = IF a_call = "dht22" THEN <<ReadDht(a_file, a_in)>>
                ELSE <<ReadDust(a_file, a_in)>>
    /\ UNCHANGED <<a_file, a_call, a_in, aqiVars, engineVars, cycleVars,
                   loopVars>>

\* The next window holds one more LOW poll.
AcquireNextLow ==
    /\ a_call = "read_dust_sensor"
    /\ a_out # << >>
    /\ a_in < Polls(a_file)
    /\ a_in' = a_in + 1
    /\ a_out' = <<ReadDust(a_file, a_in')>>
    /\ UNCHANGED <<a_file, a_call, aqiVars, engineVars, cycleVars, loopVars>>

NextAcquire == Acquire \/ AcquireNextLow

SpecAcquire == InitAcquire /\ [][NextAcquire]_vars

(***************************************************************************)
(* The engine alone: a SensorManager and the read_sensors calls made on    *)
(* it, one per cycle.                                                      *)
(***************************************************************************)
InitEngineSpec ==
    /\ AqiIdle
    /\ AcqIdle
    /\ \E hw \in BOOLEAN : EngineConstructed(hw)
    /\ LoopIdle

SimulationCycle ==
    /\ ~hardware
    /\ cycles < MaxCycles
    /\ \E in \in SimInputs : ReadSensors(in)
    /\ UNCHANGED <<aqiVars, acqVars, loopVars>>

HardwareCycle ==
    /\ hardware
    /\ cycles < MaxHwCycles
    /\ \E in \in HwOkInputs : ReadSensors(in)
    /\ UNCHANGED <<aqiVars, acqVars, loopVars>>

FallbackCycle ==
    /\ hardware
    /\ cycles < MaxHwCycles
    /\ \E in \in HwErrorInputs : ReadSensors(in)
    /\ UNCHANGED <<aqiVars, acqVars, loopVars>>

NextEngine == SimulationCycle \/ HardwareCycle \/ FallbackCycle

SpecEngine == InitEngineSpec /\ [][NextEngine]_vars

(***************************************************************************)
(* The running application: the background thread of                       *)
(* continuous_sensor_reading and an API handler thread, sharing            *)
(* SENSOR_DATA under SENSOR_LOCK.  A handler's SENSOR_DATA.copy() is one   *)
(* step; the writer's five assignments are five steps.                     *)
(***************************************************************************)
\* Cycles of the background loop and API requests explored.
MaxLoops == 2
MaxRequests == 2

\* The draws explored in the loop: a part of the engine's menus.
LoopSimInputs ==
    { s \in SimInputs : s.cycle = 1 /\ s.pm25 = 5 }
LoopHwInputs ==
    { i \in HwOkInputs : i.low25 = 86 \/ i.low10 = 86 }
        \cup { i \in HwErrorInputs : i.sim.cycle = 0 /\ i.sim.pm25 = 5 }

\* The handlers that read the latest reading.
Handlers == {"realtime_data", "save_simple_collection", "system_status"}

InitLoop ==
    /\ AqiIdle
    /\ AcqIdle
    /\ \E hw \in BOOLEAN : EngineConstructed(hw)
    /\ LoopIdle

CanAcquire_Always(lock) == TRUE

\* threading.Lock: `with SENSOR_LOCK` enters only when nobody holds it.
CanAcquire(lock) == lock = "free"

\* continuous_sensor_reading, line 383: sensor_manager = SensorManager(...).
WriterStart ==
    /\ pcW = "start"
    /\ sensor_manager' = TRUE
    /\ pcW' = "top"
    /\ UNCHANGED <<aqiVars, acqVars, critical, apiVars, engineVars,
                   cycleVars, readerVars, SENSOR_DATA, SENSOR_LOCK,
                   loop_errors, published>>

\* continuous_sensor_reading, lines 388-389: while True enters the next
\* iteration, whose first statement is the call of read_sensors.
WriterIterate ==
    /\ pcW = "top"
    /\ cycles < MaxLoops
    /\ pcW' = "read"
    /\ UNCHANGED <<aqiVars, acqVars, critical, apiVars, engineVars,
                   cycleVars, readerVars, sensor_manager, SENSOR_DATA,
                   SENSOR_LOCK, loop_errors, published>>

\* continuous_sensor_reading, lines 389-391 and 406-408: the call of
\* read_sensors; an exception leaving it is printed by the loop, which then
\* sleeps.
WriterRead ==
    /\ pcW = "read"
    /\ \E in \in IF hardware THEN LoopHwInputs ELSE LoopSimInputs :
          ReadSensors(in)
    /\ pcW' = IF last'.raised THEN "sleep" ELSE "lock"
    /\ loop_errors' = IF last'.raised THEN loop_errors + 1 ELSE loop_errors
    /\ UNCHANGED <<aqiVars, acqVars, critical, apiVars, readerVars,
                   sensor_manager, SENSOR_DATA, SENSOR_LOCK, published>>

\* continuous_sensor_reading, line 393: with SENSOR_LOCK.
WriterLock ==
    /\ pcW = "lock"
    /\ CanAcquire(SENSOR_LOCK)
    /\ SENSOR_LOCK' = "writer"
    /\ pcW' = "pm25"
    /\ UNCHANGED <<aqiVars, acqVars, critical, apiVars, engineVars,
                   cycleVars, readerVars, sensor_manager, SENSOR_DATA,
                   loop_errors, published>>

\* The order of the five assignments.
AfterField(field) ==
    CASE field = "pm25" -> "pm10" [] field = "pm10" -> "temp"
      [] field = "temp" -> "humidity" [] field = "humidity" -> "aqi"
      [] field = "aqi" -> "unlock"

\* The assignments with the aqi taken from the pair the cycle handed to the
\* momentum filter.
StoredValue_Instantaneous(field, d) ==
    CASE field = "pm25" -> d.pm25 [] field = "pm10" -> d.pm10
      [] field = "temp" -> d.temperature [] field = "humidity" -> d.humidity
      [] field = "aqi" ->
             calculate_aqi(last.calls[1].new_value \div (Unit \div 10),
                           last.calls[2].new_value \div (Unit \div 10))

\* The value each assignment stores.
StoredValue(field, d) ==
    CASE field = "pm25" -> d.pm25 [] field = "pm10" -> d.pm10
      [] field = "temp" -> d.temperature [] field = "humidity" -> d.humidity
      [] field = "aqi" -> calculate_aqi(d.pm25, d.pm10)

\* What evaluating each assignment does: lines 394-397 store a field of the
\* reading, line 398 calls sensor_manager.calculate_aqi and stores its result.
WriterWork(field) ==
    IF field = "aqi" THEN {"calculate_aqi", "assign"} ELSE {"assign"}

\* continuous_sensor_reading, lines 394-398: one assignment to SENSOR_DATA.
WriterStore ==
    /\ pcW \in {"pm25", "pm10", "temp", "humidity", "aqi"}
    /\ SENSOR_DATA' = [SENSOR_DATA EXCEPT ![pcW] = StoredValue(pcW, data)]
    /\ critical' = critical \cup WriterWork(pcW)
    /\ pcW' = AfterField(pcW)
    /\ UNCHANGED <<aqiVars, acqVars, apiVars, engineVars, cycleVars, readerVars,
                   sensor_manager, SENSOR_LOCK, loop_errors, published>>

\* continuous_sensor_reading: leaving the with block releases the lock.
WriterUnlock ==
    /\ pcW = "unlock"
    /\ SENSOR_LOCK' = "free"
    /\ published' = published \cup {SENSOR_DATA}
    /\ critical' = {}
    /\ pcW' = "sleep"
    /\ UNCHANGED <<aqiVars, acqVars, apiVars, engineVars, cycleVars, readerVars,
                   sensor_manager, SENSOR_DATA, loop_errors>>

AfterSleep_StopOnFailure(mode) == IF mode = "fallback" THEN "stopped" ELSE "top"

\* while True: after the sleep the loop starts the next cycle, whatever the
\* last one did.
AfterSleep(mode) == "top"

\* continuous_sensor_reading, lines 401-404 (408 after an exception).
WriterSleep ==
    /\ pcW = "sleep"
    /\ pcW' = AfterSleep(last.mode)
    /\ UNCHANGED <<aqiVars, acqVars, critical, apiVars, engineVars,
                   cycleVars, readerVars, sensor_manager, SENSOR_DATA,
                   SENSOR_LOCK, loop_errors, published>>

\* The steps of the background thread other than the read_sensors call.
WriterProgress ==
    WriterStart \/ WriterIterate \/ WriterLock \/ WriterStore
        \/ WriterUnlock \/ WriterSleep

Writer == WriterProgress \/ WriterRead

\* A request arrives for one of the handlers.
Request ==
    /\ pcR = "idle"
    /\ requests < MaxRequests
    /\ \E h \in Handlers : handler' = h
    /\ requests' = requests + 1
    /\ pcR' = "lock"
    /\ UNCHANGED <<aqiVars, acqVars, critical, apiVars, engineVars,
                   cycleVars, writerVars, snap>>

\* realtime_data line 439, save_simple_collection line 490, system_status
\* line 720: with SENSOR_LOCK.
ReaderLock ==
    /\ pcR = "lock"
    /\ CanAcquire(SENSOR_LOCK)
    /\ SENSOR_LOCK' = "reader"
    /\ pcR' = "copy"
    /\ UNCHANGED <<aqiVars, acqVars, critical, apiVars, engineVars,
                   cycleVars, sensor_manager, SENSOR_DATA, pcW, loop_errors,
                   published, handler, snap, requests>>

\* What a handler does inside its with block: SENSOR_DATA.copy(), and in
\* system_status any(SENSOR_DATA.values()) before it.
HandlerWork(h) ==
    IF h = "system_status" THEN {"any", "copy"} ELSE {"copy"}

ReaderCopy_Take ==
    /\ pcR = "copy"
    /\ snap' = SENSOR_DATA
    /\ SENSOR_DATA' = InitSensorData
    /\ critical' = critical \cup HandlerWork(handler)
    /\ pcR' = "unlock"
    /\ UNCHANGED <<aqiVars, acqVars, apiVars, engineVars, cycleVars,
                   sensor_manager, SENSOR_LOCK, pcW, loop_errors, published,
                   handler, requests>>

\* lines 440, 491, 722: SENSOR_DATA.copy().
ReaderCopy ==
    /\ pcR = "copy"
    /\ snap' = SENSOR_DATA
    /\ critical' = critical \cup HandlerWork(handler)
    /\ pcR' = "unlock"
    /\ UNCHANGED <<aqiVars, acqVars, apiVars, engineVars, cycleVars,
                   writerVars, handler, requests>>

\* Leaving the with block releases the lock.
ReaderUnlock ==
    /\ pcR = "unlock"
    /\ SENSOR_LOCK' = "free"
    /\ critical' = {}
    /\ pcR' = "respond"
    /\ UNCHANGED <<aqiVars, acqVars, apiVars, engineVars, cycleVars,
                   sensor_manager, SENSOR_DATA, pcW, loop_errors, published,
                   handler, snap, requests>>

\* The handler returns its response, built from the copy.
Respond ==
    /\ pcR = "respond"
    /\ pcR' = "idle"
    /\ UNCHANGED <<aqiVars, acqVars, critical, apiVars, engineVars,
                   cycleVars, writerVars, handler, snap, requests>>

ReaderProgress == ReaderLock \/ ReaderCopy \/ ReaderUnlock \/ Respond

NextLoop == Writer \/ Request \/ ReaderProgress

SpecLoop == InitLoop /\ [][NextLoop]_vars

\* The threads are scheduled: the background thread and a handler that has
\* started each take their next step when they can.  Nothing is assumed
\* about how long a read_sensors call takes.
SpecLoopFair ==
    InitLoop /\ [][NextLoop]_vars /\ WF_vars(WriterProgress)
        /\ WF_vars(ReaderProgress)

(***************************************************************************)
(* The API: every route that reads the latest reading or the database,     *)
(* served by one handler thread beside the background thread.  A handler   *)
(* that copies SENSOR_DATA does so through ReaderLock, ReaderCopy and      *)
(* ReaderUnlock; its database transaction and its response are one step.   *)
(***************************************************************************)
\* A collection point as the client sends it: pm25, pm10 and temperature in
\* tenths, humidity in percent.
Point(pm25, pm10, temperature, humidity) ==
    [pm25 |-> pm25, pm10 |-> pm10, temperature |-> temperature,
     humidity |-> humidity]

\* The collectionData explored: two points in different AQI brackets.
SomePoints == <<Point(100, 200, 240, 60), Point(554, 600, 250, 62)>>

\* A request: whether its coordinates are inside BOUNDS, its collectionData
\* and its reading_id; db_ok, whether the database works while it is
\* served, and started are filled in when it is dispatched.
Input(in_bounds, points, reading_id) ==
    [db_ok |-> TRUE, in_bounds |-> in_bounds, points |-> points,
     reading_id |-> reading_id, started |-> 0]

\* The requests explored, as <<handler, input>>.
ApiRequests ==
    { <<"realtime_data", Input(TRUE, << >>, 0)>>,
      <<"system_status", Input(TRUE, << >>, 0)>>,
      <<"save_simple_collection", Input(TRUE, << >>, 0)>>,
      <<"save_simple_collection", Input(FALSE, << >>, 0)>>,
      <<"save_complete_collection", Input(TRUE, SomePoints, 0)>>,
      <<"save_complete_collection", Input(FALSE, SomePoints, 0)>>,
      <<"save_complete_collection", Input(TRUE, << >>, 0)>>,
      <<"get_readings", Input(TRUE, << >>, 0)>>,
      <<"get_collection_data", Input(TRUE, << >>, 1)>>,
      <<"delete_reading", Input(TRUE, << >>, 1)>> }

\* A client that polls the latest reading.
PollRequests == { <<"realtime_data", Input(TRUE, << >>, 0)>> }

\* The cycles whose record has been written to SENSOR_DATA completely.
Completed ==
    IF pcW \in {"lock", "pm25", "pm10", "temp", "humidity", "aqi", "unlock"}
    THEN cycles - 1 ELSE cycles

\* Whether the handler reaches its `with SENSOR_LOCK`: system_status queries
\* the database first, save_simple_collection checks BOUNDS first, and
\* save_complete_collection calls save_simple_collection when collectionData
\* is empty.
ReachesLock(h, r) ==
    \/ h = "realtime_data"
    \/ h = "system_status" /\ r.db_ok
    \/ h = "save_simple_collection" /\ r.in_bounds
    \/ h = "save_complete_collection" /\ r.points = << >> /\ r.in_bounds

\* A response: the HTTP status code, the JSON body and the database after it.
Response(code, body, st) == [code |-> code, body |-> body, store |-> st]

\* The body of a response to a request that raised.
ErrorBody == [error |-> "exception"]

\* realtime_data, lines 442-450.
realtime_data(latest, t) ==
    [pm25 |-> latest.pm25, pm10 |-> latest.pm10, temperature |-> latest.temp,
     humidity |-> latest.humidity, aqi |-> latest.aqi, timestamp |-> t,
     status |-> "active"]

\* save_simple_collection; current_data is the copy taken under the lock.
save_simple_collection(r, current_data, st, t) ==
    IF ~r.in_bounds
    THEN Response(400, [error |-> "Coordinates outside NITK campus bounds"], st)
    ELSE IF ~r.db_ok THEN Response(500, ErrorBody, st)
    ELSE LET reading_id == st.next_id
             row == [id |-> reading_id, in_bounds |-> r.in_bounds,
                     aqi |-> current_data.aqi, pm25 |-> current_data.pm25,
                     pm10 |-> current_data.pm10, temp |-> current_data.temp,
                     humidity |-> current_data.humidity]
         IN  Response(200,
                 [id |-> reading_id, aqi |-> current_data.aqi,
                  pm25 |-> current_data.pm25, pm10 |-> current_data.pm10,
                  temperature |-> current_data.temp,
                  humidity |-> current_data.humidity, timestamp |-> t,
                  status |-> "success"],
                 [st EXCEPT !.readings = @ \cup {row},
                            !.next_id = @ + 1])

\* sum(d[field] for d in collection_data)
RECURSIVE SumOf(_, _)
SumOf(points, field) ==
    IF points = << >> THEN 0
    ELSE Head(points)[field] + SumOf(Tail(points), field)

\* sum(...) / len(collection_data)
Average(points, field) == ExactDiv(SumOf(points, field), Len(points))

\* save_complete_collection; manager is whether the global sensor_manager
\* is set when the handler runs.
save_complete_collection(r, current_data, manager, st, t) ==
    IF r.points = << >> THEN save_simple_collection(r, current_data, st, t)
    ELSE IF ~r.db_ok THEN Response(500, ErrorBody, st)
    ELSE LET avg_pm25 == Average(r.points, "pm25")
             avg_pm10 == Average(r.points, "pm10")
             avg_temp == Average(r.points, "temperature")
             avg_humidity == Average(r.points, "humidity")
             avg_aqi == IF manager THEN calculate_aqi(avg_pm25, avg_pm10)
                        ELSE 50
             reading_id == st.next_id
             row == [id |-> reading_id, in_bounds |-> r.in_bounds,
                     aqi |-> avg_aqi, pm25 |-> avg_pm25, pm10 |-> avg_pm10,
                     temp |-> avg_temp, humidity |-> avg_humidity]
             rows == { [reading_id |-> reading_id, sequence_number |-> i - 1,
                        point |-> r.points[i]] : i \in 1..Len(r.points) }
         IN  Response(200,
                 [id |-> reading_id, aqi |-> avg_aqi, pm25 |-> avg_pm25,
                  pm10 |-> avg_pm10, temperature |-> avg_temp,
                  humidity |-> avg_humidity, timestamp |-> t,
                  collection_points |-> Len(r.points), status |-> "success"],
                 [st EXCEPT !.readings = @ \cup {row},
                            !.collection_data = @ \cup rows,
                            !.next_id = @ + 1])

\* get_readings
get_readings(r, st) ==
    IF ~r.db_ok
    THEN Response(500, [error |-> "Failed to retrieve readings",
                        readings |-> {}], st)
    ELSE Response(200, [readings |-> st.readings,
                        count |-> Cardinality(st.readings),
                        status |-> "success"], st)

\* get_collection_data
get_collection_data(r, st) ==
    IF ~r.db_ok
    THEN Response(500, [error |-> "Failed to retrieve collection data",
                        collection_data |-> {}], st)
    ELSE LET collection_points ==
                 { c \in st.collection_data : c.reading_id = r.reading_id }
         IN  Response(200, [reading_id |-> r.reading_id,
                            collection_data |-> collection_points,
                            count |-> Cardinality(collection_points),
                            status |-> "success"], st)

\* delete_reading without its first DELETE statement.
delete_reading_KeepPoints(r, st) ==
    IF ~r.db_ok THEN Response(500, ErrorBody, st)
    ELSE IF \A row \in st.readings : row.id # r.reading_id
    THEN Response(404, [error |-> "Reading not found"], st)
    ELSE Response(200,
             [message |-> "Reading deleted successfully",
              reading_id |-> r.reading_id, status |-> "success"],
             [st EXCEPT
                 !.readings = { row \in @ : row.id # r.reading_id }])

\* delete_reading
delete_reading(r, st) ==
    IF ~r.db_ok THEN Response(500, ErrorBody, st)
    ELSE IF \A row \in st.readings : row.id # r.reading_id
    THEN Response(404, [error |-> "Reading not found"], st)
    ELSE Response(200,
             [message |-> "Reading deleted successfully",
              reading_id |-> r.reading_id, status |-> "success"],
             [st EXCEPT
                 !.collection_data =
                     { c \in @ : c.reading_id # r.reading_id },
                 !.readings = { row \in @ : row.id # r.reading_id }])

\* any(SENSOR_DATA.values())
AnyValue(latest) == \E k \in DOMAIN latest : latest[k] # 0

\* system_status; latest is SENSOR_DATA as seen under the lock.
system_status(r, latest, st) ==
    IF ~r.db_ok
    THEN Response(500, [database |-> "error", reading_count |-> 0,
                        sensor_status |-> "error", status |-> "degraded"], st)
    ELSE Response(200,
             [database |-> "connected",
              reading_count |-> Cardinality(st.readings),
              collection_points |-> Cardinality(st.collection_data),
              sensor_status |-> IF AnyValue(latest) THEN "active"
                                ELSE "initializing",
              current_values |-> latest, status |-> "healthy"], st)

\* The response of handler h.
Handle(h, r, latest, manager, st, t) ==
    CASE h = "realtime_data" -> Response(200, realtime_data(latest, t), st)
      [] h = "system_status" -> system_status(r, latest, st)
      [] h = "save_simple_collection" -> save_simple_collection(r, latest, st, t)
      [] h = "save_complete_collection" ->
             save_complete_collection(r, latest, manager, st, t)
      [] h = "get_readings" -> get_readings(r, st)
      [] h = "get_collection_data" -> get_collection_data(r, st)
      [] h = "delete_reading" -> delete_reading(r, st)

\* Flask dispatches request q to its handler.
Dispatch(q) ==
    /\ pcR = "idle"
    /\ requests < MaxRequests
    /\ handler' = q[1]
    /\ req' = [q[2] EXCEPT !.db_ok = store.available, !.started = Completed]
    /\ pcR' = IF ReachesLock(q[1], req') THEN "lock" ELSE "respond"
    /\ requests' = requests + 1
    /\ UNCHANGED <<aqiVars, acqVars, critical, engineVars, cycleVars,
                   writerVars, snap, store, now>>

\* A request of a client that has let go of the previous response.
ApiRequest ==
    /\ \E q \in ApiRequests : Dispatch(q)
    /\ response' = NoResponse

\* A request of a client that keeps the previous response to compare.
PollRequest ==
    /\ \E q \in PollRequests : Dispatch(q)
    /\ UNCHANGED response

\* The rest of the handler: its database transaction and its response.  A
\* response with a timestamp reads the clock, which is no earlier than the
\* last value read.  The handler's locals end with it.
ApiRespond ==
    /\ pcR = "respond"
    /\ \E t \in {now, now + 1} :
          \E out \in {Handle(handler, req, snap, sensor_manager, store, t)} :
              /\ store' = out.store
              /\ response' = [handler |-> handler, code |-> out.code,
                               body |-> out.body, db_ok |-> req.db_ok,
                               started |-> req.started,
                               finished |-> Completed]
              /\ now' = IF "timestamp" \in DOMAIN out.body THEN t ELSE now
    /\ req' = NoRequest
    /\ handler' = "none"
    /\ snap' = InitSensorData
    /\ pcR' = "idle"
    /\ UNCHANGED <<aqiVars, acqVars, critical, engineVars, cycleVars,
                   writerVars, requests>>

InitApi ==
    /\ AqiIdle
    /\ AcqIdle
    /\ EngineConstructed(FALSE)
    /\ ThreadsIdle
    /\ \E available \in BOOLEAN : store = EmptyStore(available)

NextApi ==
    Writer \/ ApiRequest \/ ReaderLock \/ ReaderCopy \/ ReaderUnlock
        \/ ApiRespond

SpecApi == InitApi /\ [][NextApi]_vars

InitPoll ==
    /\ AqiIdle
    /\ AcqIdle
    /\ EngineConstructed(FALSE)
    /\ LoopIdle

NextPoll ==
    Writer \/ PollRequest \/ ReaderLock \/ ReaderCopy \/ ReaderUnlock
        \/ ApiRespond

SpecPoll == InitPoll /\ [][NextPoll]_vars

(***************************************************************************)
(* Properties of the AQI calculator (SpecAqi).                             *)
(***************************************************************************)
\* C1: for every pair of concentrations, the result of calculate_aqi is the
\* larger of the two rounded sub-indices: it is one of them and no smaller
\* than either.
C1_AqiIsMaxOfSubIndices ==
    q_aqi # None =>
        /\ q_aqi \in {_calc_aqi_pm25(q_pm25), _calc_aqi_pm10(q_pm10)}
        /\ q_aqi >= _calc_aqi_pm25(q_pm25)
        /\ q_aqi >= _calc_aqi_pm10(q_pm10)

\* A call whose PM10 sub-index is the strictly larger one.
C1_Witness ==
    /\ q_aqi # None
    /\ q_pm25 > 0
    /\ _calc_aqi_pm10(q_pm10) > _calc_aqi_pm25(q_pm25)

\* C2 as stated: calculate_aqi(10, 40) returns 53.
C2_Returns53 ==
    (q_aqi # None /\ q_pm25 = 100 /\ q_pm10 = 400) => q_aqi = 53

\* C2 as amended: calculate_aqi(10, 40) returns 42, the maximum of the PM2.5
\* sub-index 42 for concentration 10 and the PM10 sub-index 37 for
\* concentration 40.
C2_Returns42 ==
    (q_aqi # None /\ q_pm25 = 100 /\ q_pm10 = 400) =>
        /\ q_aqi = 42
        /\ _calc_aqi_pm25(q_pm25) = 42
        /\ _calc_aqi_pm10(q_pm10) = 37

\* calculate_aqi(10, 40) has been called.
C2_Witness == q_aqi # None /\ q_pm25 = 100 /\ q_pm10 = 400

\* The upper ends of the first five PM2.5 brackets, in tenths.
Pm25Breakpoints == <<120, 354, 554, 1504, 2504>>

\* C11: the PM2.5 sub-index is non-decreasing in the concentration, and at
\* each breakpoint 12.0, 35.4, 55.4, 150.4, 250.4 the value of the bracket
\* that ends there, which is the value returned, equals the value the next
\* bracket's expression gives at the same concentration.
C11_Pm25MonotoneContinuous ==
    (q_aqi # None /\ q_axis = "pm25") =>
        /\ q_pm25 > 0 => _calc_aqi_pm25(q_pm25 - 1) <= _calc_aqi_pm25(q_pm25)
        /\ \A k \in 1..5 :
              q_pm25 = Pm25Breakpoints[k] =>
                  /\ _calc_aqi_pm25(q_pm25) = Bracket25(k, q_pm25)
                  /\ Bracket25(k, q_pm25) = Bracket25(k + 1, q_pm25)

\* The sweep has crossed every bracket and stands on the last breakpoint.
C11_Witness ==
    /\ q_aqi = 300
    /\ q_axis = "pm25"
    /\ q_pm25 = 2504

\* C12: the PM2.5 sub-index follows the documented table [0,12]->[0,50],
\* (12,35.4]->[50,100], (35.4,55.4]->[100,150], (55.4,150.4]->[150,200],
\* (150.4,250.4]->[200,300], (250.4,500.4]->[300,500]: the result lies in
\* the bracket's AQI range and is an integer nearest to the linear
\* interpolation; aqi_pm25(12.0) is 50 and every concentration above 500.4
\* gives 500.
C12_Pm25FollowsTable ==
    (q_aqi # None /\ q_axis = "pm25") =>
        LET a == _calc_aqi_pm25(q_pm25)
            documented ==
                << <<0, 120, 0, 50>>, <<120, 354, 50, 100>>,
                   <<354, 554, 100, 150>>, <<554, 1504, 150, 200>>,
                   <<1504, 2504, 200, 300>>, <<2504, 5004, 300, 500>> >>
        IN  /\ q_pm10 = 0 => q_aqi = a
            /\ \A k \in 1..6 :
                  LET cLo == documented[k][1]
                      cHi == documented[k][2]
                      aLo == documented[k][3]
                      aHi == documented[k][4]
                      line == aLo * (cHi - cLo) + (aHi - aLo) * (q_pm25 - cLo)
                      off == a * (cHi - cLo) - line
                  IN  ((k = 1 \/ cLo < q_pm25) /\ q_pm25 <= cHi) =>
                          /\ aLo <= a /\ a <= aHi
                          /\ 2 * off <= cHi - cLo
                          /\ -2 * off <= cHi - cLo
            /\ q_pm25 = 120 => a = 50
            /\ q_pm25 > 5004 => a = 500

\* A concentration above 500.4 has been evaluated.
C12_Witness ==
    /\ q_axis = "pm25"
    /\ q_pm25 = MaxPm25
    /\ q_pm25 > 5004
    /\ q_pm10 = 0
    /\ q_aqi = 500

\* C13: the PM10 sub-index follows the documented table [0,54]->[0,50],
\* (54,154]->[50,100], (154,254]->[100,150], (254,354]->[150,200],
\* (354,424]->[200,300]: the result lies in the bracket's AQI range and is
\* an integer nearest to the linear interpolation; every concentration
\* above 424 gives the constant 301.
C13_Pm10FollowsTable ==
    (q_aqi # None /\ q_axis = "pm10") =>
        LET a == _calc_aqi_pm10(q_pm10)
            documented ==
                << <<0, 540, 0, 50>>, <<540, 1540, 50, 100>>,
                   <<1540, 2540, 100, 150>>, <<2540, 3540, 150, 200>>,
                   <<3540, 4240, 200, 300>> >>
        IN  /\ q_pm25 = 0 => q_aqi = a
            /\ \A k \in 1..5 :
                  LET cLo == documented[k][1]
                      cHi == documented[k][2]
                      aLo == documented[k][3]
                      aHi == documented[k][4]
                      line == aLo * (cHi - cLo) + (aHi - aLo) * (q_pm10 - cLo)
                      off == a * (cHi - cLo) - line
                  IN  ((k = 1 \/ cLo < q_pm10) /\ q_pm10 <= cHi) =>
                          /\ aLo <= a /\ a <= aHi
                          /\ 2 * off <= cHi - cLo
                          /\ -2 * off <= cHi - cLo
            /\ q_pm10 > 4240 => a = 301

\* A concentration above 424 has been evaluated.
C13_Witness ==
    /\ q_axis = "pm10"
    /\ q_pm10 = MaxPm10
    /\ q_pm10 > 4240
    /\ q_pm25 = 0
    /\ q_aqi = 301

\* The labels in increasing severity.
Labels ==
    <<"Good", "Moderate", "Unhealthy for Sensitive Groups", "Unhealthy",
      "Very Unhealthy", "Hazardous">>

\* The position of a label in Labels.
Severity(label) == CHOOSE i \in 1..6 : Labels[i] = label

\* C20: the status of an AQI value is the one label given by the cutoffs
\* 50/100/150/200/300 (<= 50 Good, 51..100 Moderate, 101..150 Unhealthy for
\* Sensitive Groups, 151..200 Unhealthy, 201..300 Very Unhealthy, above 300
\* Hazardous), and the label's severity does not decrease as the AQI grows.
C20_StatusByCutoffs ==
    q_aqi # None =>
        /\ q_status = get_aqi_status(q_aqi)
        /\ \E i \in 1..6 :
              /\ q_status = Labels[i]
              /\ i = 1 => q_aqi <= 50
              /\ i = 2 => 51 <= q_aqi /\ q_aqi <= 100
              /\ i = 3 => 101 <= q_aqi /\ q_aqi <= 150
              /\ i = 4 => 151 <= q_aqi /\ q_aqi <= 200
              /\ i = 5 => 201 <= q_aqi /\ q_aqi <= 300
              /\ i = 6 => q_aqi > 300
        /\ q_aqi > 0 =>
              Severity(get_aqi_status(q_aqi - 1)) <= Severity(q_status)

\* The status of the first AQI value above the last cutoff.
C20_Witness ==
    /\ q_aqi = 301
    /\ q_status = "Hazardous"

\* C30: for concentrations pm25 >= 0 and pm10 >= 0 both sub-indices and the
\* combined AQI are integers in [0, 500], and the combined AQI does not
\* decrease when either argument grows, the PM10 step from 300 at 424.0 to
\* 301 above it included.
C30_AqiRangeAndMonotone ==
    q_aqi # None =>
        /\ _calc_aqi_pm25(q_pm25) \in 0..500
        /\ _calc_aqi_pm10(q_pm10) \in 0..500
        /\ q_aqi \in 0..500
        /\ (q_axis = "pm25" /\ q_pm25 > 0) =>
              calculate_aqi(q_pm25 - 1, q_pm10) <= q_aqi
        /\ (q_axis = "pm10" /\ q_pm10 > 0) =>
              calculate_aqi(q_pm25, q_pm10 - 1) <= q_aqi

\* The PM10 sweep has just stepped from 424.0 to 424.1 under a PM2.5 whose
\* sub-index is below 300.
C30_Witness ==
    /\ q_axis = "pm10"
    /\ q_pm10 = 4241
    /\ q_pm25 = 1504
    /\ q_aqi = 301

(***************************************************************************)
(* Properties of the engine (SpecEngine).                                  *)
(***************************************************************************)
\* C3: every reading a cycle returns has pm10 >= 1.3 * pm25.
C3_RatioFloorInOutput ==
    cycles > 0 => 10 * data.pm10 >= 13 * data.pm25

\* C7: the classifier starts Indoor; a hardware cycle with score >= 5 leaves
\* it Indoor, one with score <= 1 leaves it Outdoor, one with a score in
\* between leaves it as it was; no other cycle changes it; and after the
\* scores 6, 6, 2, 2 from the start it has been Indoor after every step.
C7_Hysteresis ==
    /\ cycles = 0 => environment_state = "indoor"
    /\ \A i \in 1..Len(scores) :
          LET before == IF i = 1 THEN "indoor" ELSE scores[i - 1][2]
              score == scores[i][1]
              after == scores[i][2]
          IN  /\ score >= 5 => after = "indoor"
              /\ score <= 1 => after = "outdoor"
              /\ (1 < score /\ score < 5) => after = before
    /\ environment_state =
          IF scores = << >> THEN "indoor" ELSE scores[Len(scores)][2]
    /\ [i \in 1..Len(scores) |-> scores[i][1]] = <<6, 6, 2, 2>>
          => \A i \in 1..4 : scores[i][2] = "indoor"

\* Four hardware cycles from the start scored 6, 6, 2, 2.
C7_Witness ==
    [i \in 1..Len(scores) |-> scores[i][1]] = <<6, 6, 2, 2>>

\* C8 as stated: the first apply call on a freshly constructed engine
\* returns its input unchanged.
C8_ColdStartPassThrough ==
    cycles = 1 => last.calls[1].ret = last.calls[1].new_value

\* C8 as amended: a freshly constructed engine already holds a persisted
\* value for each channel (pm25 15, pm10 30, temp 24, humidity 60), so the
\* first apply call for a channel is smoothed against it:
\* apply('pm25', 20.0) returns 0.75 * 15 + 0.25 * 20 = 16.25.
C8_FirstCallSmoothedAgainstSeed ==
    cycles = 1 =>
        \A i \in 1..4 :
            LET c == last.calls[i]
                seed == CASE c.key = "pm25" -> 15 [] c.key = "pm10" -> 30
                          [] c.key = "temp" -> 24 [] c.key = "humidity" -> 60
            IN  /\ c.key \in DOMAIN c.before
                /\ c.before[c.key] = V(seed)
                /\ 4 * (c.ret - V(seed)) = c.new_value - V(seed)
                /\ (c.key = "pm25" /\ c.new_value = V(20))
                      => c.ret = V(16) + ExactDiv(Unit, 4)

\* The first cycle of an engine called apply('pm25', 20.0).
C8_Witness ==
    /\ cycles = 1
    /\ last.calls[1].key = "pm25"
    /\ last.calls[1].new_value = V(20)

\* C9: every apply call for a channel that has a persisted value returns
\* 0.75 * previous + 0.25 * new_value, stores it as the channel's persisted
\* value and leaves the other channels' persisted values unchanged.
C9_MomentumStep ==
    /\ \A i \in 1..Len(last.calls) :
          LET c == last.calls[i]
          IN  c.key \in DOMAIN c.before =>
                /\ 4 * (c.ret - c.before[c.key]) = c.new_value - c.before[c.key]
                /\ c.after[c.key] = c.ret
                /\ DOMAIN c.after = DOMAIN c.before
                /\ \A k \in DOMAIN c.before \ {c.key} : c.after[k] = c.before[k]
    /\ cycles > 0 => current_values = last.calls[4].after

\* A call that really smoothed: its result is neither the previous value
\* nor the input.
C9_Witness ==
    /\ cycles >= 2
    /\ last.calls[1].ret # last.calls[1].new_value
    /\ last.calls[1].ret # last.calls[1].before["pm25"]

\* The buffer that results from pushing the values of list, in order.
RECURSIVE Pushes(_, _)
Pushes(list, values) ==
    IF values = << >> THEN list
    ELSE Pushes(Push(list, Head(values)), Tail(values))

\* C10: after any number of cycles each channel's buffer holds exactly the
\* most recent min(cycles, N) samples pushed, in arrival order, so at most
\* N; and pushing 1..6 into an empty buffer (N = 5) leaves 2..6, whose
\* average is 4.0.
C10_RollingBuffer ==
    /\ \A k \in ChannelSet :
          LET n == Min(cycles, buffer_size)
          IN  /\ Len(pushed[k]) = cycles
              /\ Len(history[k]) = n
              /\ Len(history[k]) <= buffer_size
              /\ history[k] = SubSeq(pushed[k], cycles - n + 1, cycles)
    /\ LET buffer == Pushes(<< >>, <<V(1), V(2), V(3), V(4), V(5), V(6)>>)
       IN  /\ buffer = <<V(2), V(3), V(4), V(5), V(6)>>
           /\ RoundedAverage(buffer, 1) = {40}

\* One cycle more than the capacity: the first sample has been evicted.
C10_Witness ==
    /\ cycles = buffer_size + 1
    /\ Len(history["pm25"]) = buffer_size
    /\ history["pm25"][1] # pushed["pm25"][1]

(***************************************************************************)
(* Properties of the running application (SpecLoop, SpecLoopFair).          *)
(***************************************************************************)
\* The record the loop stores for a reading d.
Record(d) ==
    [pm25 |-> d.pm25, pm10 |-> d.pm10, temp |-> d.temperature,
     humidity |-> d.humidity, aqi |-> calculate_aqi(d.pm25, d.pm10)]

\* C4: every snapshot of the latest reading a handler obtains, under any
\* interleaving with the background writer, is the initial record or the
\* record one completed cycle wrote; it never mixes the fields of two
\* cycles, and its aqi is calculate_aqi of its own pm25 and pm10.
C4_SnapshotIsOneCycle ==
    /\ snap \in {InitSensorData} \cup published
    /\ snap.aqi = calculate_aqi(snap.pm25, snap.pm10)
    /\ pcR \in {"copy", "unlock"} => SENSOR_LOCK = "reader"
    /\ pcW \in {"pm25", "pm10", "temp", "humidity", "aqi", "unlock"}
          => SENSOR_LOCK = "writer"

\* A handler holds the record of the first cycle while the writer, holding
\* the lock, has stored part of the second.
C4_Witness ==
    /\ pcR = "respond"
    /\ snap # InitSensorData
    /\ cycles = 2
    /\ pcW = "humidity"
    /\ SENSOR_DATA.pm25 # snap.pm25

\* C5: the acquisition loop does not end because of one cycle's failure:
\* after a cycle whose acquisition raised, the loop comes back to its sleep
\* and, while cycles remain to be explored, starts the next cycle.
C5_LoopSurvivesFailure ==
    /\ (last.mode = "fallback" /\ pcW = "lock") ~> (pcW = "sleep")
    /\ \A k \in 1..(MaxLoops - 1) :
          (cycles = k /\ last.mode = "fallback" /\ pcW = "lock")
              ~> (cycles = k /\ pcW = "read")

\* The first cycle failed and fell back, and the second ran on the hardware.
C5_Witness ==
    /\ cycles = 2
    /\ errors = 1
    /\ last.mode = "hardware"
    /\ pcW = "sleep"

\* C6: when hardware acquisition raises in a cycle, the same cycle produces
\* a reading from the simulation, which becomes the latest reading; the
\* error is logged once and reaches neither the loop nor a handler.
C6_FallbackReading ==
    last.mode = "fallback" =>
        /\ hardware
        /\ ~last.raised
        /\ last.logged = 1
        /\ errors >= 1
        /\ loop_errors = 0
        /\ \E s \in SimInputs :
              \A i \in 1..4 :
                 last.calls[i].new_value = SimulationTargets(s)[last.calls[i].key]
        /\ \A k \in ChannelSet : history[k][Len(history[k])] = last.sample[k]
        /\ data \in FinalValues(history)
        /\ pcW = "sleep" => SENSOR_DATA = Record(data)
        /\ pcW = "sleep" => Record(data) \in published

\* A failed cycle's simulated reading is the latest reading, and a handler
\* has obtained it.
C6_Witness ==
    /\ last.mode = "fallback"
    /\ pcW = "sleep"
    /\ SENSOR_DATA = Record(data)
    /\ pcR = "respond"
    /\ snap = SENSOR_DATA
    /\ loop_errors = 0

(***************************************************************************)
(* Properties of the calibration and of the published ranges (SpecEngine). *)
(***************************************************************************)
\* C18: every reading a cycle returns, in hardware and in simulation mode
\* and after any sequence of cycles, has pm25 in [8, 150], pm10 in
\* [15, 300], temperature in [18, 35] and humidity in [30, 90].
C18_FieldsInRanges ==
    cycles > 0 =>
        /\ 80 <= data.pm25 /\ data.pm25 <= 1500
        /\ 150 <= data.pm10 /\ data.pm10 <= 3000
        /\ 180 <= data.temperature /\ data.temperature <= 350
        /\ 30 <= data.humidity /\ data.humidity <= 90

\* A value of the calibration stage in thousandths of a unit.
Thousandths(x) == ExactDiv(x, Unit \div 1000)

\* C19: right after the ratio control of a hardware cycle, whatever the duty
\* cycles and the humidity were, 1.3 * pm25 <= pm10 <= 2.5 * pm25; a pm10
\* below the floor has been raised to it, one above the ceiling lowered to
\* it, and one in between left as it was.
C19_RatioAfterEnforcement ==
    last.mode = "hardware" =>
        LET pm25 == Thousandths(last.raw[1].pm25)
            pm10 == Thousandths(last.raw[1].pm10)
            before == Thousandths(last.raw[1].pm10_before)
        IN  /\ pm25 > 0
            /\ 13 * pm25 <= 10 * pm10
            /\ 10 * pm10 <= 25 * pm25
            /\ 10 * before < 13 * pm25 => 10 * pm10 = 13 * pm25
            /\ 10 * before > 25 * pm25 => 10 * pm10 = 25 * pm25
            /\ (13 * pm25 <= 10 * before /\ 10 * before <= 25 * pm25)
                  => pm10 = before

\* A hardware cycle whose pm10 was above the ceiling and was lowered to it.
C19_Witness ==
    /\ last.mode = "hardware"
    /\ last.raw[1].pm10_before > last.raw[1].pm10
    /\ 2 * last.raw[1].pm10 = 5 * last.raw[1].pm25

\* C22: in every hardware cycle the pair handed to the momentum filter is
\* the calibrated pair cut at the caps of the environment state selected in
\* that cycle: 35 and 45 when the state is indoor, 120 and 150 when it is
\* outdoor.  The state is the classifier's, which an intermediate score
\* leaves as it was.
C22_CapsOfSelectedState ==
    last.mode = "hardware" =>
        LET indoor == environment_state = "indoor"
            cap25 == IF indoor THEN pm25_indoor_cap ELSE pm25_outdoor_cap
            cap10 == IF indoor THEN pm10_indoor_cap ELSE pm10_outdoor_cap
            pm25 == last.calls[1].new_value
            pm10 == last.calls[2].new_value
        IN  /\ environment_state = scores[Len(scores)][2]
            /\ cap25 = (IF indoor THEN 35 ELSE 120)
            /\ cap10 = (IF indoor THEN 45 ELSE 150)
            /\ pm25 <= V(cap25)
            /\ pm10 <= V(cap10)
            /\ pm25 = AtMost(cap25, last.raw[1].pm25)
            /\ pm10 = AtMost(cap10, last.raw[1].pm10)

\* A hardware cycle with an intermediate score in the outdoor state whose
\* pair is above the indoor caps and was handed on as it is.
C22_Witness ==
    /\ last.mode = "hardware"
    /\ environment_state = "outdoor"
    /\ scores[Len(scores)][1] \in 2..4
    /\ last.calls[1].new_value > V(pm25_indoor_cap)
    /\ last.calls[2].new_value > V(pm10_indoor_cap)

\* C28: every cycle, whether the hardware path succeeds, loses its
\* temperature/humidity read or falls back to the simulation after an
\* exception, applies momentum exactly once per channel, each call starting
\* from what the previous one left, and pushes exactly one new sample to
\* each of the four rolling buffers; so the four buffers have the same
\* length, min(number of cycles, N).
C28_OneSamplePerCycle ==
    [][cycles' # cycles =>
          /\ cycles' = cycles + 1
          /\ Len(last'.calls) = 4
          /\ \A i \in 1..4 :
                /\ last'.calls[i].key = Channels[i]
                /\ last'.calls[i].before =
                      IF i = 1 THEN current_values ELSE last'.calls[i - 1].after
          /\ current_values' = last'.calls[4].after
          /\ \A k \in ChannelSet :
                /\ history'[k] =
                      IF Len(history[k]) < buffer_size
                      THEN Append(history[k], last'.sample[k])
                      ELSE Append(Tail(history[k]), last'.sample[k])
                /\ Len(history'[k]) = Min(cycles', buffer_size)]_vars

\* A hardware engine after a fallback cycle and then a cycle that lost its
\* temperature/humidity read and went on with the default 26 + 2: three
\* samples in every buffer.
C28_Witness ==
    /\ hardware
    /\ cycles = 3
    /\ errors >= 1
    /\ last.mode = "hardware"
    /\ last.calls[3].new_value = V(28)
    /\ last.raw[1].pm25 = V(20)
    /\ \A k \in ChannelSet : Len(history[k]) = 3

(***************************************************************************)
(* Properties of the API (SpecPoll, SpecApi).                              *)
(***************************************************************************)
\* C14: two calls of the latest-reading route with no cycle completing
\* between the arrival of the first and the return of the second return
\* bodies identical in every field (pm25, pm10, temperature, humidity, aqi,
\* timestamp).
C14_RepeatedCallIdentical ==
    [][(/\ pcR = "respond" /\ pcR' = "idle"
        /\ response.handler = "realtime_data"
        /\ response'.handler = "realtime_data"
        /\ response.started = response'.finished)
          => response'.body = response.body]_vars

\* C15: the summary of a submit with collection points, whenever it is
\* served, carries the arithmetic means of the points' pm25, pm10,
\* temperature and humidity, and its aqi is calculate_aqi of the mean pm25
\* and mean pm10.
C15_SummaryFromMeans ==
    (/\ response.handler = "save_complete_collection"
     /\ response.code = 200
     /\ "collection_points" \in DOMAIN response.body) =>
        LET summary == response.body
            n == summary.collection_points
        IN  /\ n = Len(SomePoints)
            /\ n * summary.pm25 = SumOf(SomePoints, "pm25")
            /\ n * summary.pm10 = SumOf(SomePoints, "pm10")
            /\ n * summary.temperature = SumOf(SomePoints, "temperature")
            /\ n * summary.humidity = SumOf(SomePoints, "humidity")
            /\ summary.aqi = calculate_aqi(summary.pm25, summary.pm10)

\* The status signal a response carries about the latest reading.
Signal(resp) ==
    IF resp.handler = "realtime_data" THEN resp.body.status
    ELSE resp.body.sensor_status

\* C16: a response about the latest reading returned before the first cycle
\* has completed carries a status signal that is neither the signal of a
\* normal reading ("active") nor the signal of a store error ("error").
C16_NoDataYetSignal ==
    (/\ response.handler \in {"realtime_data", "system_status"}
     /\ response.code = 200
     /\ response.finished = 0) =>
        Signal(response) \notin {"active", "error"}

\* C17: no step of an API handler, whether its request succeeds or fails
\* with a store error, changes SENSOR_DATA; the only steps that change it
\* are the assignments of the background loop, made under the lock.
C17_OnlyLoopWritesLatest ==
    [][/\ (pcR' # pcR \/ response' # response \/ store' # store
              \/ req' # req \/ snap' # snap)
          => SENSOR_DATA' = SENSOR_DATA
       /\ SENSOR_DATA' # SENSOR_DATA =>
             /\ SENSOR_LOCK = "writer"
             /\ pcW \in {"pm25", "pm10", "temp", "humidity", "aqi"}
             /\ pcW' = AfterField(pcW)]_vars

\* A request has failed with a store error while SENSOR_DATA holds the record
\* of a completed cycle.
C17_Witness ==
    /\ response.code = 500
    /\ ~response.db_ok
    /\ response.finished >= 1
    /\ SENSOR_DATA \in published
    /\ SENSOR_DATA # InitSensorData

\* The sample of channel number i that a cycle pushes, given what the
\* momentum call for that channel returned.
PushedAfterMomentum(i) ==
    LET ret == [j \in 1..4 |-> last.calls[j].ret]
    IN  IF last.mode = "hardware"
        THEN AbsoluteBounds(ret[1], ret[2], ret[3], ret[4])[Channels[i]]
        ELSE ret[i]

\* C23: in every cycle the sample pushed to a channel's rolling buffer is
\* the output of that cycle's momentum call for the channel (cut at the
\* absolute bounds in a hardware cycle), the reading is the rounded rolling
\* average of the buffers, and the aqi of the published record is
\* calculate_aqi of that record's own pm25 and pm10.
C23_SmoothedBeforeAqi ==
    cycles > 0 =>
        /\ \A i \in 1..4 :
              LET k == Channels[i]
              IN  /\ last.calls[i].key = k
                  /\ last.sample[k] = PushedAfterMomentum(i)
                  /\ history[k][Len(history[k])] = last.sample[k]
        /\ data \in FinalValues(history)
        /\ pcW \in {"unlock", "sleep", "top", "read"} =>
              /\ SENSOR_DATA = Record(data)
              /\ SENSOR_DATA.aqi = calculate_aqi(data.pm25, data.pm10)

\* A hardware cycle has published a record whose aqi differs from the AQI
\* of the pair that entered the momentum filter.
C23_Witness ==
    /\ pcW = "sleep"
    /\ last.mode = "hardware"
    /\ SENSOR_DATA \in published
    /\ SENSOR_DATA.aqi #
          calculate_aqi(last.calls[1].new_value \div (Unit \div 10),
                        last.calls[2].new_value \div (Unit \div 10))

\* C24: the environment state, the rolling buffers and the momentum
\* accumulator change only in a cycle of the engine.  The environment
\* state changes only in a hardware cycle, to what the classifier's
\* hysteresis gives for that cycle's score; simulation and fallback cycles
\* leave it as it is, and no step of a handler changes any of the three.
C24_EngineOwnsItsState ==
    [][/\ environment_state' # environment_state =>
             /\ pcW = "read"
             /\ cycles' = cycles + 1
             /\ last'.mode = "hardware"
             /\ Len(scores') = Len(scores) + 1
             /\ environment_state' =
                   Hysteresis(environment_state, scores'[Len(scores')][1])
       /\ (cycles' # cycles /\ last'.mode \in {"simulation", "fallback"}) =>
             environment_state' = environment_state
       /\ (history' # history \/ current_values' # current_values) =>
             /\ pcW = "read"
             /\ cycles' = cycles + 1
       /\ (pcR' # pcR \/ snap' # snap \/ handler' # handler
              \/ requests' # requests) =>
             UNCHANGED <<history, current_values, environment_state>>]_vars

\* A hardware cycle switched the state to outdoor, a fallback cycle
\* followed and a handler has answered a request since: the state is still
\* outdoor.
C24_Witness ==
    /\ cycles = 2
    /\ last.mode = "fallback"
    /\ environment_state = "outdoor"
    /\ scores # << >>
    /\ requests >= 1
    /\ pcR = "idle"

\* C27: every reading a submit has persisted has its latitude and longitude
\* inside BOUNDS: a submission with coordinates outside them writes nothing
\* to the store, whether or not collection points are attached.
C27_PersistedInBounds ==
    \A row \in store.readings : row.in_bounds

\* The collection points that reference reading id in the store st.
PointsOf(st, id) == { c \in st.collection_data : c.reading_id = id }

C21_LockOnlyCopies ==
    critical \subseteq {"copy", "assign"}

(***************************************************************************)
(* Properties of the acquisition calls (SpecAcquire).                      *)
(***************************************************************************)
\* C26: every duty-cycle value read_dust_sensor returns on the hardware,
\* for any number of LOW polls counted in the window, lies in [0, 90].
C26_DutyWithin90 ==
    (a_call = "read_dust_sensor" /\ a_out # << >>) =>
        /\ 0 <= a_out[1]
        /\ a_out[1] <= 3 * V(90)

\* The attempts that gave both values.
Complete(attempts) ==
    { i \in 1..Len(attempts) :
         /\ attempts[i].temperature \notin {Raise, None}
         /\ attempts[i].humidity \notin {Raise, None} }

\* C25: the temperature/humidity read makes at most 2 attempts in app.py
\* and 3 in sensor.py and stops at the first attempt that gives both values,
\* whose values it then uses.  A channel for which no attempt gave a value
\* is reported absent and replaced by the default plus its jitter.  The
\* read ends in every case, raises nothing, and leaves a value for both
\* channels.
C25_BoundedDhtRetry ==
    (a_call = "dht22" /\ a_out # << >>) =>
        LET out == a_out[1]
            attempts == a_in.attempts
            n == Len(attempts)
            first == CHOOSE i \in Complete(attempts) :
                        \A j \in Complete(attempts) : i <= j
            Gave(k) == { i \in 1..n :
                           /\ attempts[i].temperature # Raise
                           /\ attempts[i][k] \notin {Raise, None} }
        IN  /\ n = (IF a_file = "app.py" THEN 2 ELSE 3)
            /\ out.tries \in 1..n
            /\ ~out.raised
            /\ out.temp # None /\ out.humidity # None
            /\ Complete(attempts) # {} =>
                  /\ out.tries = first
                  /\ out.temp = 10 * attempts[first].temperature
                  /\ out.humidity = 10 * attempts[first].humidity
                  /\ out.absent = {}
            /\ Complete(attempts) = {} => out.tries = n
            /\ Gave("temperature") = {} =>
                  /\ "temp" \in out.absent
                  /\ out.temp = DhtDefault(a_file).temp + a_in.temp_jitter
            /\ Gave("humidity") = {} =>
                  /\ "humidity" \in out.absent
                  /\ out.humidity =
                        DhtDefault(a_file).humidity + a_in.humidity_jitter

\* sensor.py: the first two attempts failed and the third gave both values.
C25_Witness ==
    /\ a_call = "dht22"
    /\ a_file = "sensor.py"
    /\ a_out # << >>
    /\ a_out[1].tries = 3
    /\ a_out[1].absent = {}
    /\ Complete(a_in.attempts) = {3}

=============================================================================
